---- MODULE Spec2Model ----
(***************************************************************************)
(* Model of helper_clickhouse.ClickhouseProxy                              *)
(* (src/helper_clickhouse/__init__.py): the column diff (diff_fields), the *)
(* ALTER TABLE renderer (alter_table), the query path (query_parse, query, *)
(* parse_json_resp) and exist_table.                                       *)
(*                                                                         *)
(* The proxy keeps no state between calls: no method assigns to self after *)
(* __init__.  A behaviour is therefore: construct the proxy, make one call *)
(* and record what the call returned, raised, logged and POSTed.           *)
(***************************************************************************)
EXTENDS Integers, Sequences, FiniteSets, TLC

VARIABLES
    self,     \* the instance attributes set by __init__
    call,     \* the method called and its arguments ([op |-> "none"] before)
    ret,      \* the value returned by the call (a tagged Python value)
    exc,      \* the exception the call raised ("" when it returned)
    posted,   \* the statements handed to requests.post during the call
    http,     \* what requests.post answered ([kind |-> "unused"] without a POST)
    log       \* the logger entries written during the call

vars == <<self, call, ret, exc, posted, http, log>>

----------------------------------------------------------------------------
(* Bounds of the model *)

\* longest column list handed to diff_fields
MaxCols == 2

\* column names and type strings the inputs are drawn from
Names == {"a", "b", "sys"}
Types == {"UInt8", "UInt16"}

Columns == [name : Names, type : Types]

SeqsUpTo(S, n) == UNION {[1..k -> S] : k \in 0..n}

ColumnLists == SeqsUpTo(Columns, MaxCols)

\* the reservered argument: left at its default None, or a collection of names
ReservedArgs ==
    {[given |-> FALSE, names |-> {}]}
        \cup {[given |-> TRUE, names |-> s] : s \in {{}, {"sys"}, {"a", "sys"}}}

----------------------------------------------------------------------------
(* Python values *)

PyNone == [kind |-> "None"]
PyList(s) == [kind |-> "list", v |-> s]
PyBool(b) == [kind |-> "bool", v |-> b]
PyBytes(b) == [kind |-> "bytes", v |-> b]

NoResp == [kind |-> "unused"]

NoCall == [op |-> "none"]

----------------------------------------------------------------------------
(* diff_fields *)

\* the dict built by "for item in cols: d[item['name']] = item['type']":
\* a later item with the same name overwrites an earlier one
FieldsDict(cols) ==
    [n \in {cols[i].name : i \in DOMAIN cols} |->
        LET last == CHOOSE i \in DOMAIN cols :
                        /\ cols[i].name = n
                        /\ \A j \in DOMAIN cols : cols[j].name = n => j <= i
        IN  cols[last].type]

\* truth value of the reservered argument: None and an empty collection are false
Truthy(reservered) == reservered.given /\ reservered.names # {}

\* mutant: modify carries the old type string
NewItemChanges_oldtype(item, old_fields) ==
    IF item.name \notin DOMAIN old_fields
    THEN <<[op |-> "add", name |-> item.name, type |-> item.type]>>
    ELSE IF old_fields[item.name] # item.type
         THEN <<[op |-> "modify", name |-> item.name, type |-> old_fields[item.name]]>>
         ELSE <<>>

\* mutant: the type comparison is dropped, every shared name is modified
NewItemChanges_nocompare(item, old_fields) ==
    IF item.name \notin DOMAIN old_fields
    THEN <<[op |-> "add", name |-> item.name, type |-> item.type]>>
    ELSE <<[op |-> "modify", name |-> item.name, type |-> item.type]>>

\* body of the loop over new (lines 173-188)
NewItemChanges(item, old_fields) ==
    IF item.name \notin DOMAIN old_fields
    THEN <<[op |-> "add", name |-> item.name, type |-> item.type]>>
    ELSE IF old_fields[item.name] # item.type
         THEN <<[op |-> "modify", name |-> item.name, type |-> item.type]>>
         ELSE <<>>

\* mutant: the membership test on reservered is lost
OldItemChanges_noreserved(item, new_fields, reservered) ==
    IF item.name \notin DOMAIN new_fields /\ Truthy(reservered)
    THEN <<[op |-> "drop", name |-> item.name]>>
    ELSE <<>>

\* mutant: the test that the name is absent from new is lost
OldItemChanges_nonew(item, new_fields, reservered) ==
    IF Truthy(reservered) /\ item.name \notin reservered.names
    THEN <<[op |-> "drop", name |-> item.name]>>
    ELSE <<>>

\* body of the loop over old (lines 190-195)
OldItemChanges(item, new_fields, reservered) ==
    IF /\ item.name \notin DOMAIN new_fields
       /\ (Truthy(reservered) /\ item.name \notin reservered.names)
    THEN <<[op |-> "drop", name |-> item.name]>>
    ELSE <<>>

RECURSIVE NewPass(_, _)
NewPass(new, old_fields) ==
    IF new = <<>> THEN <<>>
    ELSE NewItemChanges(Head(new), old_fields) \o NewPass(Tail(new), old_fields)

RECURSIVE OldPass(_, _, _)
OldPass(old, new_fields, reservered) ==
    IF old = <<>> THEN <<>>
    ELSE OldItemChanges(Head(old), new_fields, reservered)
            \o OldPass(Tail(old), new_fields, reservered)

diff_fields(old, new, reservered) ==
    NewPass(new, FieldsDict(old)) \o OldPass(old, FieldsDict(new), reservered)

DiffFields ==
    /\ call = NoCall
    /\ \E old \in ColumnLists, new \in ColumnLists, reservered \in ReservedArgs :
        /\ call' = [op |-> "diff_fields", old |-> old, new |-> new,
                    reservered |-> reservered]
        /\ ret' = PyList(diff_fields(old, new, reservered))
        /\ UNCHANGED <<self, exc, posted, http, log>>

----------------------------------------------------------------------------
(* Text.  A Python string is a sequence of runs [t |-> text, k |-> count]:  *)
(* the text t repeated k times.  A run is either blanks (t = " ") or text   *)
(* without blanks, so that len(), strip(), lower() and find() can be        *)
(* computed on statements of 16 KiB.                                        *)

Word(w) == <<[t |-> w, k |-> 1]>>
Rep(w, k) == IF k = 0 THEN <<>> ELSE <<[t |-> w, k |-> k]>>
SP == Word(" ")

\* len(s)
RECURSIVE StrLen(_)
StrLen(s) ==
    IF s = <<>> THEN 0 ELSE Len(Head(s).t) * Head(s).k + StrLen(Tail(s))

IsBlank(run) == run.t = " "

RECURSIVE LStrip(_)
LStrip(s) ==
    IF s = <<>> THEN <<>>
    ELSE IF IsBlank(Head(s)) THEN LStrip(Tail(s)) ELSE s

RECURSIVE RStrip(_)
RStrip(s) ==
    IF s = <<>> THEN <<>>
    ELSE IF IsBlank(s[Len(s)]) THEN RStrip(SubSeq(s, 1, Len(s) - 1)) ELSE s

\* s.strip()
Strip(s) == RStrip(LStrip(s))

\* str.upper() / str.lower() on the words the model uses
UpperWord(w) ==
    CASE w = "json" -> "JSON"
      [] w = "TabSeparated" -> "TABSEPARATED"
      [] w = "create" -> "CREATE"
      [] w = "table" -> "TABLE"
      [] w = "on" -> "ON"
      [] w = "cluster" -> "CLUSTER"
      [] OTHER -> w

LowerWord(w) ==
    CASE w = "JSON" -> "json"
      [] w = "CREATE" -> "create"
      [] w = "TABLE" -> "table"
      [] w = "ON" -> "on"
      [] w = "CLUSTER" -> "cluster"
      [] w = "ALTER" -> "alter"
      [] w = "ADD" -> "add"
      [] w = "DROP" -> "drop"
      [] w = "MODIFY" -> "modify"
      [] w = "COLUMN" -> "column"
      [] w = "UInt8" -> "uint8"
      [] w = "UInt16" -> "uint16"
      [] OTHER -> w

\* s.lower()
Lower(s) == [i \in DOMAIN s |-> [t |-> LowerWord(s[i].t), k |-> s[i].k]]

\* s.find(pat) != -1, for a pattern of single words and single blanks
Contains(s, pat) ==
    \E i \in 1..(Len(s) - Len(pat) + 1) : SubSeq(s, i, i + Len(pat) - 1) = pat

----------------------------------------------------------------------------
(* __init__ *)

\* line 27
QUERY_MAX_SIZE == 16 * 1024

\* lines 32-35
FORMATS == {"TabSeparated", "JSON"}

\* the attributes __init__ assigns (lines 49-61); host, port and credentials
\* only enter the URL.  fmt is upper-cased first and then asserted to be in
\* FORMATS, so a proxy is only ever constructed with fmt = "JSON".
init(dbn, timeout, fmt, nodry) ==
    [db |-> dbn, timeout |-> timeout, fmt |-> UpperWord(fmt), nodry |-> nodry]

InitAsserts(fmt) == UpperWord(fmt) \in FORMATS

\* the default arguments of __init__ (lines 43-46)
DefaultSelf == init("default", 2, "json", FALSE)

----------------------------------------------------------------------------
(* The HTTP server: what requests.post returns or raises *)

\* longest row list in a JSON answer
MaxRows == 2

Rows == SeqsUpTo([result : {0, 1}], MaxRows)

\* r.content: nothing, a JSON object with or without "data", or text that is
\* not JSON
Bodies ==
    {[kind |-> "empty"], [kind |-> "text"], [kind |-> "json", hasData |-> FALSE, rows |-> <<>>]}
        \cup {[kind |-> "json", hasData |-> TRUE, rows |-> r] : r \in Rows}

Responses ==
    {[kind |-> "raise"]}
        \cup {[kind |-> "response", status_code |-> c, content |-> b] :
                c \in {200, 500}, b \in Bodies}

\* the result of running a method: its return value or exception, the POSTs it
\* made, the answer it got and the log entries it wrote
Outcome(r, e, p, h, l) == [ret |-> r, exc |-> e, posted |-> p, http |-> h, log |-> l]

----------------------------------------------------------------------------
(* query, with its decorator log_if_code_neq_200 *)

\* lines 80-91, wrapped by lines 11-21
query(self_, sql, nodry, timeout, resp) ==
    LET http_timeout == IF timeout # 0 THEN timeout ELSE self_.timeout
        debug == <<[level |-> "debug", sql |-> sql]>>
        post == <<[data |-> sql, timeout |-> http_timeout]>>
    IN  IF ~nodry
        THEN Outcome(PyNone, "", <<>>, NoResp, debug)
        ELSE IF resp.kind = "raise"
        THEN Outcome(PyNone, "RequestException", post, resp, debug)
        ELSE IF resp.status_code # 200
        THEN Outcome(resp, "", post, resp,
                     debug \o <<[level |-> "warn", sql |-> sql,
                                 status_code |-> resp.status_code]>>)
        ELSE Outcome(resp, "", post, resp, debug)

----------------------------------------------------------------------------
(* query_parse and parse_json_resp *)

\* lines 133-136: a dict without "data" falls off the end and gives None
parse_json_resp(resp) ==
    IF resp.hasData THEN PyList(resp.rows) ELSE PyNone

\* " format " + self.fmt (line 95)
FormatSuffix(fmt) == SP \o Word("format") \o SP \o Word(fmt)

\* mutant: the limit is compared with >=
TooLong_geq(sql) == StrLen(sql) >= QUERY_MAX_SIZE

\* line 98
TooLong(sql) == StrLen(sql) > QUERY_MAX_SIZE

\* lines 94-97: the statement that is measured and sent
Prepare(self_, sql) ==
    Strip(IF self_.fmt # "" THEN sql \o FormatSuffix(self_.fmt) ELSE sql)

CreateTable == Word("create") \o SP \o Word("table")
OnCluster == Word("on") \o SP \o Word("cluster")

\* lines 93-131
query_parse(self_, sql0, nodry, resp) ==
    LET sql == Prepare(self_, sql0)
        q == query(self_, sql, nodry, 0, resp)
        r == q.ret
        done(v) == Outcome(v, "", q.posted, q.http, q.log)
    IN  IF TooLong(sql)
        THEN Outcome(PyNone, "", <<>>, NoResp,
                     <<[level |-> "error", what |-> "max length", got |-> StrLen(sql)]>>)
        ELSE IF q.exc # "" THEN q
        ELSE IF r = PyNone THEN done(PyList(<<>>))
        ELSE IF r.status_code # 200 THEN done(PyList(<<>>))
        ELSE IF self_.fmt = "JSON"
        THEN IF r.content.kind = "empty" THEN done(PyList(<<>>))
             ELSE IF /\ Contains(Lower(sql), CreateTable)
                     /\ Contains(Lower(sql), OnCluster)
             THEN done(PyList(<<>>))
             ELSE IF r.content.kind # "json"
             THEN Outcome(PyNone, "ValueError", q.posted, q.http,
                          q.log \o <<[level |-> "error", what |-> "expected JSON"]>>)
             ELSE done(parse_json_resp(r.content))
        ELSE done(PyBytes(r.content))

\* longest run of blanks before or behind a statement handed to query_parse
MaxPad == 1

\* " format JSON"
SuffixLen == StrLen(FormatSuffix("JSON"))

\* lengths of the text of a long statement, around the limit with and without
\* the format suffix
LongLens ==
    {QUERY_MAX_SIZE - SuffixLen + d : d \in -1..1}
        \cup {QUERY_MAX_SIZE + d : d \in -1..1}

Statements ==
    {Word("show") \o SP \o Word("tables"),
     Word("create") \o SP \o Word("table") \o SP \o Word("t") \o SP \o Word("on")
        \o SP \o Word("cluster") \o SP \o Word("c1"),
     Word("CREATE") \o SP \o Word("TABLE") \o SP \o Word("t") \o SP \o Word("ON")
        \o SP \o Word("CLUSTER") \o SP \o Word("c1"),
     Word("create") \o SP \o Word("table") \o SP \o Word("t")}
        \cup {Rep(" ", lead) \o Rep("x", n) \o Rep(" ", trail) :
                lead \in 0..MaxPad, trail \in 0..MaxPad, n \in LongLens}

QueryParse ==
    /\ call = NoCall
    /\ \E sql \in Statements, nodry \in BOOLEAN, resp \in Responses :
        LET out == query_parse(self, sql, nodry, resp)
        IN  /\ call' = [op |-> "query_parse", sql |-> sql, nodry |-> nodry]
            /\ ret' = out.ret
            /\ exc' = out.exc
            /\ posted' = out.posted
            /\ http' = out.http
            /\ log' = out.log
            /\ UNCHANGED self

----------------------------------------------------------------------------
(* exist_table *)

\* lines 148-152: the loop looks at the first row only; iterating over None
\* raises TypeError, and so does indexing an element of a byte string
exist_table_result(rows) ==
    IF rows.kind = "None" THEN [ret |-> PyNone, exc |-> "TypeError"]
    ELSE IF rows.kind = "bytes"
    THEN IF rows.v.kind = "empty"
         THEN [ret |-> PyBool(FALSE), exc |-> ""]
         ELSE [ret |-> PyNone, exc |-> "TypeError"]
    ELSE IF rows.v = <<>> THEN [ret |-> PyBool(FALSE), exc |-> ""]
    ELSE [ret |-> PyBool(rows.v[1].result # 0), exc |-> ""]

\* lines 146-152
exist_table(self_, name, resp) ==
    LET sql == Word("exists") \o SP \o name
        q == query_parse(self_, sql, TRUE, resp)
        res == exist_table_result(q.ret)
    IN  IF q.exc # "" THEN q
        ELSE Outcome(res.ret, res.exc, q.posted, q.http, q.log)

\* "exists " + name + " format JSON" is exactly QUERY_MAX_SIZE long for a name
\* of this length
LongestName == QUERY_MAX_SIZE - StrLen(Word("exists") \o SP) - SuffixLen

TableNames ==
    {Word("t"), Word("events")} \cup {Rep("n", LongestName + d) : d \in 0..1}

ExistTable ==
    /\ call = NoCall
    /\ \E name \in TableNames, resp \in Responses :
        LET out == exist_table(self, name, resp)
        IN  /\ call' = [op |-> "exist_table", name |-> name]
            /\ ret' = out.ret
            /\ exc' = out.exc
            /\ posted' = out.posted
            /\ http' = out.http
            /\ log' = out.log
            /\ UNCHANGED self

----------------------------------------------------------------------------
(* alter_table *)

\* lines 204-220
Clause(item) ==
    IF item.op = "add"
    THEN <<Word("ADD") \o SP \o Word("COLUMN") \o SP \o Word(item.name)
              \o SP \o Word(item.type)>>
    ELSE IF item.op = "drop"
    THEN <<Word("DROP") \o SP \o Word("COLUMN") \o SP \o Word(item.name)>>
    ELSE IF item.op = "modify"
    THEN <<Word("MODIFY") \o SP \o Word("COLUMN") \o SP \o Word(item.name)
              \o SP \o Word(item.type)>>
    ELSE <<>>

\* lines 202-220: the list of clauses
RECURSIVE Actions(_)
Actions(changes) ==
    IF changes = <<>> THEN <<>>
    ELSE Clause(Head(changes)) \o Actions(Tail(changes))

\* ", ".join(actions)
RECURSIVE Join(_)
Join(actions) ==
    IF actions = <<>> THEN <<>>
    ELSE IF Len(actions) = 1 THEN Head(actions)
    ELSE Head(actions) \o Word(",") \o SP \o Join(Tail(actions))

\* truth value of the cluster argument: None and "" are false
ClusterGiven(cluster) == cluster.given /\ cluster.s # <<>>

\* line 200 filled in as in lines 222-235
AlterSql(dbn, tbl_name, cluster, actions) ==
    LET on_cluster == IF ClusterGiven(cluster)
                      THEN Word("ON") \o SP \o Word("CLUSTER") \o SP \o Strip(cluster.s)
                      ELSE <<>>
    IN  Word("ALTER") \o SP \o Word("TABLE") \o SP \o Word(dbn) \o Word(".")
            \o tbl_name \o SP \o on_cluster \o SP \o Join(actions)

\* attribute lookup on the instance: a missing attribute raises AttributeError
HasAttr(obj, attr) == attr \in DOMAIN obj

\* lines 199-237.  Both branches read self.dbn, and __init__ stores its dbn
\* argument as self.db (line 54).
alter_table(self_, tbl_name, changes, cluster, resp) ==
    LET actions == Actions(changes)
    IN  IF ~HasAttr(self_, "dbn")
        THEN Outcome(PyNone, "AttributeError", <<>>, NoResp, <<>>)
        ELSE query_parse(self_, AlterSql(self_.dbn, tbl_name, cluster, actions),
                         self_.nodry, resp)

\* longest list of changes handed to alter_table
MaxChanges == 2

ChangeOps ==
    [op : {"add", "modify"}, name : Names, type : Types] \cup [op : {"drop"}, name : Names]

ChangeLists == SeqsUpTo(ChangeOps, MaxChanges)

ClusterArgs ==
    {[given |-> FALSE, s |-> <<>>], [given |-> TRUE, s |-> <<>>],
     [given |-> TRUE, s |-> Word("c1")], [given |-> TRUE, s |-> Word("east") \o SP]}

AlterTable ==
    /\ call = NoCall
    /\ \E changes \in ChangeLists, cluster \in ClusterArgs, resp \in Responses :
        LET out == alter_table(self, Word("t"), changes, cluster, resp)
        IN  /\ call' = [op |-> "alter_table", tbl_name |-> Word("t"),
                        changes |-> changes, cluster |-> cluster]
            /\ ret' = out.ret
            /\ exc' = out.exc
            /\ posted' = out.posted
            /\ http' = out.http
            /\ log' = out.log
            /\ UNCHANGED self

----------------------------------------------------------------------------
(* Specifications *)

\* diff_fields reads nothing of the instance: one proxy is enough
InitDiff ==
    /\ self = DefaultSelf
    /\ call = NoCall
    /\ ret = PyNone
    /\ exc = ""
    /\ posted = <<>>
    /\ http = NoResp
    /\ log = <<>>

SpecDiff == InitDiff /\ [][DiffFields]_vars

\* the proxy as constructed with any database, run mode and accepted format
Init ==
    /\ \E dbn \in {"default", "logs"}, fmt \in {"json", "JSON", "TabSeparated"},
          nodry \in BOOLEAN :
            /\ InitAsserts(fmt)
            /\ self = init(dbn, 2, fmt, nodry)
    /\ call = NoCall
    /\ ret = PyNone
    /\ exc = ""
    /\ posted = <<>>
    /\ http = NoResp
    /\ log = <<>>

Next == QueryParse \/ ExistTable \/ AlterTable

Spec == Init /\ [][Next]_vars

----------------------------------------------------------------------------
(* Claims about diff_fields, checked under SpecDiff *)

DiffDone == call.op = "diff_fields"

NamesOf(cols) == {cols[i].name : i \in DOMAIN cols}

UniqueNames(cols) ==
    \A i, j \in DOMAIN cols : cols[i].name = cols[j].name => i = j

IsDrop(c) == c.op = "drop"
IsNotDrop(c) == c.op # "drop"

\* what the claim expects for one column of new, read off the old list itself
ExpectedForNew(c, old) ==
    IF \A i \in DOMAIN old : old[i].name # c.name
    THEN <<[op |-> "add", name |-> c.name, type |-> c.type]>>
    ELSE IF \E i \in DOMAIN old : old[i].name = c.name /\ old[i].type # c.type
         THEN <<[op |-> "modify", name |-> c.name, type |-> c.type]>>
         ELSE <<>>

RECURSIVE ExpectedNewPart(_, _)
ExpectedNewPart(new, old) ==
    IF new = <<>> THEN <<>>
    ELSE ExpectedForNew(Head(new), old) \o ExpectedNewPart(Tail(new), old)

\* C1: for old and new with unique names, the adds and modifies of the result
\* are exactly, in the order of new, one add per name absent from old and one
\* modify carrying the new type per name whose type differs, nothing for an
\* unchanged name; and all of them come before every drop.
C1_NewPartInOrderBeforeDrops ==
    (DiffDone /\ UniqueNames(call.old) /\ UniqueNames(call.new)) =>
        /\ SelectSeq(ret.v, IsNotDrop) = ExpectedNewPart(call.new, call.old)
        /\ \A i, j \in DOMAIN ret.v :
              (IsDrop(ret.v[i]) /\ IsNotDrop(ret.v[j])) => j < i

\* a modify and an add, in the order of new, with the drop of b behind them
C1_Witness ==
    /\ DiffDone
    /\ call.old = <<[name |-> "a", type |-> "UInt8"], [name |-> "b", type |-> "UInt8"]>>
    /\ call.new = <<[name |-> "a", type |-> "UInt16"], [name |-> "sys", type |-> "UInt8"]>>
    /\ call.reservered = [given |-> TRUE, names |-> {"sys"}]
    /\ ret.v = <<[op |-> "modify", name |-> "a", type |-> "UInt16"],
                 [op |-> "add", name |-> "sys", type |-> "UInt8"],
                 [op |-> "drop", name |-> "b"]>>

RECURSIVE AllAdds(_)
AllAdds(new) ==
    IF new = <<>> THEN <<>>
    ELSE <<[op |-> "add", name |-> Head(new).name, type |-> Head(new).type]>>
            \o AllAdds(Tail(new))

RECURSIVE AllDrops(_)
AllDrops(old) ==
    IF old = <<>> THEN <<>>
    ELSE <<[op |-> "drop", name |-> Head(old).name]>> \o AllDrops(Tail(old))

\* C2: for old and new that share no name and an empty or unset reservered,
\* the result is one add per column of new, in new's order, followed by one
\* drop per column of old, in old's order.
C2_DisjointAddsThenDrops ==
    (/\ DiffDone
     /\ UniqueNames(call.old) /\ UniqueNames(call.new)
     /\ NamesOf(call.old) \cap NamesOf(call.new) = {}
     /\ call.reservered.names = {}) =>
        ret.v = AllAdds(call.new) \o AllDrops(call.old)

\* C3: every drop of the result names a column present in old, absent from
\* new and not a member of reservered.
C3_DropOnlyOldAbsentUnreserved ==
    DiffDone =>
        \A i \in DOMAIN ret.v :
            IsDrop(ret.v[i]) =>
                /\ ret.v[i].name \in NamesOf(call.old)
                /\ ret.v[i].name \notin NamesOf(call.new)
                /\ ret.v[i].name \notin call.reservered.names

\* the spec's scenario: old=[a, sys], new=[], reserved={sys} gives [drop a]
C3_Witness ==
    /\ DiffDone
    /\ call.old = <<[name |-> "a", type |-> "UInt8"], [name |-> "sys", type |-> "UInt16"]>>
    /\ call.new = <<>>
    /\ call.reservered = [given |-> TRUE, names |-> {"sys"}]
    /\ ret.v = <<[op |-> "drop", name |-> "a"]>>

\* C4: a column list with unique names diffed against itself, with an empty
\* or unset reservered, gives the empty list.
C4_SameSchemaNoChanges ==
    (/\ DiffDone
     /\ UniqueNames(call.old)
     /\ call.new = call.old
     /\ call.reservered.names = {}) =>
        ret.v = <<>>

C4_Witness ==
    /\ DiffDone
    /\ Len(call.old) = MaxCols
    /\ UniqueNames(call.old)
    /\ call.new = call.old
    /\ call.reservered.names = {}
    /\ ret.v = <<>>

\* C5: for old and new with unique names and any reservered, no column name
\* occurs in two operations of the result.
C5_AtMostOneOpPerName ==
    (DiffDone /\ UniqueNames(call.old) /\ UniqueNames(call.new)) =>
        \A i, j \in DOMAIN ret.v : ret.v[i].name = ret.v[j].name => i = j

\* a result holding a modify, an add and a drop, each for a different name
C5_Witness ==
    /\ DiffDone
    /\ UniqueNames(call.old) /\ UniqueNames(call.new)
    /\ Truthy(call.reservered)
    /\ \E i, j \in DOMAIN ret.v : ret.v[i].op = "modify" /\ ret.v[j].op = "drop"
    /\ NamesOf(call.old) \cap NamesOf(call.new) # {}

----------------------------------------------------------------------------
(* Claims about the proxy, checked under Spec *)

AlterDone == call.op = "alter_table"
QueryParseDone == call.op = "query_parse"
ExistDone == call.op = "exist_table"

Raised == exc # ""

DebugEntries == SelectSeq(log, LAMBDA e : e.level = "debug")

\* C6: alter_table with an empty changes list makes no POST, whatever cluster
\* and the run mode are, and completes successfully.
C6_EmptyChangesNoOpSuccess ==
    (AlterDone /\ call.changes = <<>>) => (posted = <<>> /\ ~Raised)

\* C7: with self.nodry false, alter_table with a non-empty changes list logs
\* the rendered statement, makes no POST and returns instead of failing.
C7_DryRunRendersAndSkips ==
    (AlterDone /\ call.changes # <<>> /\ ~self.nodry) =>
        /\ ~Raised
        /\ posted = <<>>
        /\ Len(DebugEntries) = 1

\* number of places where "ON CLUSTER" (in either case) starts in a statement
QualifierCount(sql) ==
    Cardinality({i \in 1..(Len(sql) - 2) : SubSeq(Lower(sql), i, i + 2) = OnCluster})

\* C9: for a non-empty changes list alter_table renders one statement, which
\* holds no ON CLUSTER when cluster is None and exactly one, followed by the
\* cluster name and then the clauses, when cluster is a name.
C9_ClusterQualifierOnce ==
    (AlterDone /\ call.changes # <<>>
        /\ (~call.cluster.given \/ Strip(call.cluster.s) # <<>>)) =>
        /\ Len(DebugEntries) = 1
        /\ LET sql == DebugEntries[1].sql
               head == Word("ALTER") \o SP \o Word("TABLE") \o SP \o Word(self.db)
                          \o Word(".") \o call.tbl_name \o SP
           IN  IF call.cluster.given
               THEN /\ QualifierCount(sql) = 1
                    /\ SubSeq(sql, 1, Len(head) + 5 + Len(Strip(call.cluster.s)))
                          = head \o Word("ON") \o SP \o Word("CLUSTER") \o SP
                               \o Strip(call.cluster.s) \o SP
               ELSE QualifierCount(sql) = 0

\* blanks in front of a statement
RECURSIVE LeadBlanks(_)
LeadBlanks(s) ==
    IF s = <<>> THEN 0
    ELSE IF IsBlank(Head(s)) THEN Head(s).k + LeadBlanks(Tail(s)) ELSE 0

\* length of what query_parse measures for a statement that is not blank: the
\* statement without its leading blanks, followed by " format " and the format
SentLen(sql) == StrLen(sql) - LeadBlanks(sql) + Len(" format ") + Len(self.fmt)

\* C8 as stated: a caller's statement of 16 KiB + 1 characters is rejected
\* without a POST and one of exactly 16 KiB is POSTed when execution is allowed.
C8_LimitOnCallerStatement ==
    QueryParseDone =>
        /\ StrLen(call.sql) = QUERY_MAX_SIZE + 1 => (ret = PyNone /\ posted = <<>>)
        /\ (StrLen(call.sql) = QUERY_MAX_SIZE /\ call.nodry) => posted # <<>>

\* C8 amended: the limit applies to the statement after " format <fmt>" is
\* appended and surrounding blanks are stripped: at 16 KiB + 1 it is rejected
\* (None returned, an error logged, no POST), at exactly 16 KiB it is POSTed
\* when execution is allowed.
C8_LimitOnSentStatement ==
    QueryParseDone =>
        /\ SentLen(call.sql) = QUERY_MAX_SIZE + 1 =>
              /\ ret = PyNone /\ ~Raised /\ posted = <<>>
              /\ \E i \in DOMAIN log : log[i].level = "error"
        /\ (SentLen(call.sql) = QUERY_MAX_SIZE /\ call.nodry) =>
              /\ Len(posted) = 1
              /\ StrLen(posted[1].data) = QUERY_MAX_SIZE

\* a caller's statement within 16 KiB that is rejected once the format is added
C8_Witness ==
    /\ QueryParseDone
    /\ call.nodry
    /\ StrLen(call.sql) < QUERY_MAX_SIZE
    /\ SentLen(call.sql) = QUERY_MAX_SIZE + 1
    /\ ret = PyNone
    /\ posted = <<>>

\* the query behind exist_table decoded no rows: the statement was over the
\* limit, the status was not 200, the body was empty, or the JSON object had no
\* "data" or an empty one
NoDecodedRows ==
    \/ posted = <<>>
    \/ http.kind = "response" /\ http.status_code # 200
    \/ http.kind = "response" /\ http.content.kind = "empty"
    \/ http.kind = "response" /\ http.content.kind = "json" /\ http.content.rows = <<>>

\* C10: exist_table does not raise for lack of rows: it returns False whenever
\* no row was decoded and else the truth value of the first row's result.
C10_ExistTableFailsOpen ==
    (ExistDone /\ http.kind # "raise"
        /\ ~(http.kind = "response" /\ http.status_code = 200
                /\ http.content.kind = "text")) =>
        /\ ~Raised
        /\ ret = PyBool(IF NoDecodedRows THEN FALSE ELSE http.content.rows[1].result # 0)

====
